---- MODULE Spec2Model ----
(***************************************************************************)
(* Retrieval pipeline of the CUNY chatbot (web_Scraper.py, basic_scraper.py):*)
(* domain policy, snapshot cache, crawler, page discovery and the query     *)
(* entry point get_cuny_answer_for_chatbot.                                 *)
(*                                                                          *)
(* A URL is a record [netloc, path]; netloc is the host as urlparse returns *)
(* it, split at the dots into a sequence of labels.  Time is counted in     *)
(* hours.  Scores of the query path are counted in tenths (0.1 = 1); the    *)
(* scoring and extraction functions compute theirs exactly, as fractions.   *)
(*                                                                          *)
(* Specifications: SpecPolicy, SpecCache, SpecShared (a save beside loads), *)
(* SpecCrawl and LiveCrawl, SpecFetch, SpecQuery, SpecDiscover, SpecCalls   *)
(* (the pure functions applied to their inputs).                            *)
(***************************************************************************)
EXTENDS Integers, Sequences, FiniteSets, TLC

VARIABLES
    probe,        \* SpecPolicy: the netloc last handed to the domain policy
    verdict,      \* SpecPolicy: what the two whitelist functions answered
    now,          \* wall clock, hours
    cacheFile,    \* CACHE_FILE: whether it exists and the chunks in it
    lastOp,       \* the cache operation or call that ran last
    loaded,       \* what load_cache() returned, when it ran last
    lastSaved,    \* history: mapping and time of the last save that completed
    prevGet,      \* history: per URL, when fetch_and_parse_page requested
                  \* it the time before the last
    lastGet,      \* history: per URL, when fetch_and_parse_page requested it last
    page,         \* what the last direct fetch_and_parse_page call came to
    crawl,        \* locals of the running crawl_website call
    query,        \* locals of the running get_cuny_answer_for_chatbot call
    args,         \* the arguments of the scoring or extraction call under study
    ret,          \* what that call returned
    io            \* SpecShared: the file handles of a save_cache and a
                  \* load_cache call that run concurrently

vars == <<probe, verdict, now, cacheFile, lastOp, loaded, lastSaved,
          prevGet, lastGet, page, crawl, query, args, ret, io>>

----------------------------------------------------------------------------
(* Bounds of the model *)

MaxLabels == 4      \* longest netloc probed, in labels
MaxTime == 26       \* the clock stops here
MaxDepthArg == 2    \* largest max_depth a crawl is called with
MaxPagesArg == 2    \* largest max_pages a crawl is called with
MaxItems == 2       \* most items the search provider returns
MaxPageSnippets == 2    \* most snippets one page yields
MaxSections == 2    \* most sections a page handed to the extractor has

TickSteps == {12, 13}   \* hours the clock may advance in one step

----------------------------------------------------------------------------
(* Domain Policy *)

Labels == {"www", "hunter", "cuny", "edu", "evil", "com", "usnews"}

\* The netloc string: the labels with a "." token between them.
RECURSIVE Dotted(_)
Dotted(ls) ==
    IF Len(ls) = 0 THEN <<>>
    ELSE IF Len(ls) = 1 THEN <<ls[1]>>
    ELSE <<ls[1], ".">> \o Dotted(Tail(ls))

\* A pattern r".*\.a\.b$" as tokens: ".*" is the wildcard, the rest literal.
Pat(domain) == <<".*", ".">> \o Dotted(domain)

CUNY_WHITELIST ==
    { Pat(<<"cuny", "edu">>),
      Pat(<<"baruch", "cuny", "edu">>),
      Pat(<<"hunter", "cuny", "edu">>),
      Pat(<<"citytech", "cuny", "edu">>),
      Pat(<<"ccny", "cuny", "edu">>),
      Pat(<<"brooklyn", "cuny", "edu">>),
      Pat(<<"queens", "cuny", "edu">>),
      Pat(<<"lehman", "cuny", "edu">>),
      Pat(<<"csi", "cuny", "edu">>),
      Pat(<<"york", "cuny", "edu">>),
      Pat(<<"mec", "cuny", "edu">>),
      Pat(<<"jjay", "cuny", "edu">>) }

EXTERNAL_WHITELIST ==
    { Pat(<<"nces", "ed", "gov">>),
      Pat(<<"ope", "ed", "gov">>),
      Pat(<<"princetonreview", "com">>),
      Pat(<<"usnews", "com">>),
      Pat(<<"niche", "com">>),
      Pat(<<"cccse", "org">>) }

WHITELIST ==
    { Pat(<<"cuny", "edu">>),
      Pat(<<"baruch", "cuny", "edu">>),
      Pat(<<"hunter", "cuny", "edu">>),
      Pat(<<"citytech", "cuny", "edu">>),
      Pat(<<"ccny", "cuny", "edu">>) }

\* re.search: the pattern may match anywhere, the tail of the string is free.
RECURSIVE SearchMatch(_, _)
SearchMatch(pat, s) ==
    IF Len(pat) = 0 THEN TRUE
    ELSE IF Head(pat) = ".*"
         THEN \E k \in 0..Len(s) : SearchMatch(Tail(pat), SubSeq(s, k + 1, Len(s)))
         ELSE Len(s) > 0 /\ Head(s) = Head(pat) /\ SearchMatch(Tail(pat), Tail(s))

\* re.fullmatch(pat, s): the whole string is consumed by the pattern.
RECURSIVE FullMatch(_, _)
FullMatch(pat, s) ==
    IF Len(pat) = 0 THEN Len(s) = 0
    ELSE IF Head(pat) = ".*"
         THEN \E k \in 0..Len(s) : FullMatch(Tail(pat), SubSeq(s, k + 1, Len(s)))
         ELSE Len(s) > 0 /\ Head(s) = Head(pat) /\ FullMatch(Tail(pat), Tail(s))

is_cuny_domain(url) ==
    \E pat \in CUNY_WHITELIST : FullMatch(pat, Dotted(url.netloc))

is_external_domain(url) ==
    \E pat \in EXTERNAL_WHITELIST : FullMatch(pat, Dotted(url.netloc))

LooseWhitelisted(url) ==
    \E pat \in CUNY_WHITELIST \cup EXTERNAL_WHITELIST :
        SearchMatch(pat, Dotted(url.netloc))

is_whitelisted_domain(url) == is_cuny_domain(url) \/ is_external_domain(url)

whitelisted(url) ==
    \E pat \in WHITELIST : FullMatch(pat, Dotted(url.netloc))

Url(netloc, path) == [netloc |-> netloc, path |-> path]

RECURSIVE SeqsUpTo(_, _)
SeqsUpTo(S, n) ==
    IF n = 0 THEN {<<>>}
    ELSE LET shorter == SeqsUpTo(S, n - 1)
         IN  shorter \cup { Append(s, x) : s \in shorter, x \in S }

Netlocs == SeqsUpTo(Labels, MaxLabels) \ {<<>>}

----------------------------------------------------------------------------
(* The model's URLs and page texts *)

UrlRoot == Url(<<"www", "cuny", "edu">>, "/")
UrlAdm == Url(<<"www", "cuny", "edu">>, "/admissions/")
UrlHunter == Url(<<"hunter", "cuny", "edu">>, "/admissions/")
UrlNews == Url(<<"www", "usnews", "com">>, "/best-colleges/")
UrlNces == Url(<<"nces", "ed", "gov">>, "/ipeds")
UrlEvil == Url(<<"cuny", "edu", "evil", "com">>, "/")
NoUrl == Url(<<>>, "")

\* The order in which a mapping's items are written out.
UrlOrder == <<UrlRoot, UrlAdm, UrlHunter, UrlNews, UrlNces, UrlEvil>>

Urls == { UrlOrder[i] : i \in 1..Len(UrlOrder) }

\* is_whitelisted_domain and is_cuny_domain over the model's URLs, worked out
\* once.
InScope == [u \in Urls |-> is_whitelisted_domain(u)]

InCuny == [u \in Urls |-> is_cuny_domain(u)]

Texts == {"t1", "t2"}

EmptyMap == [u \in {} |-> ""]

\* The url -> text mappings over a set of URLs.
MappingsOver(S) == UNION { [D -> Texts] : D \in SUBSET S }

----------------------------------------------------------------------------
(* Snapshot Cache: CACHE_FILE as the chunks json.dump has written to it *)

CACHE_EXPIRY_HOURS == 24

Tok(kind, ts, k, v) == [kind |-> kind, ts |-> ts, k |-> k, v |-> v]

AbsentFile == [exists |-> FALSE, chunks |-> <<>>]

RECURSIVE DumpItems(_, _)
DumpItems(content, i) ==
    IF i > Len(UrlOrder) THEN <<>>
    ELSE IF UrlOrder[i] \in DOMAIN content
         THEN <<Tok("pair", 0, UrlOrder[i], content[UrlOrder[i]])>>
              \o DumpItems(content, i + 1)
         ELSE DumpItems(content, i + 1)

\* json.dump({'timestamp': ..., 'content': content}, f): the chunks in order.
JsonDump(timestamp, content) ==
    <<Tok("{", 0, NoUrl, ""), Tok("timestamp", timestamp, NoUrl, ""),
      Tok("content{", 0, NoUrl, "")>>
    \o DumpItems(content, 1)
    \o <<Tok("}", 0, NoUrl, ""), Tok("}", 0, NoUrl, "")>>

ParseError == [ok |-> FALSE, timestamp |-> 0, content |-> EmptyMap]

\* json.load(f): an object is read only if it is closed; a later item of the
\* same key replaces an earlier one.
JsonLoad(chunks) ==
    LET n == Len(chunks)
        wellFormed ==
            /\ n >= 5
            /\ chunks[1].kind = "{"
            /\ chunks[2].kind = "timestamp"
            /\ chunks[3].kind = "content{"
            /\ \A i \in 4..(n - 2) : chunks[i].kind = "pair"
            /\ chunks[n - 1].kind = "}"
            /\ chunks[n].kind = "}"
        keys == { chunks[i].k : i \in 4..(n - 2) }
        lastOf(u) == CHOOSE i \in 4..(n - 2) :
                        /\ chunks[i].k = u
                        /\ \A j \in 4..(n - 2) : chunks[j].k = u => j <= i
    IN  IF wellFormed
        THEN [ok |-> TRUE, timestamp |-> chunks[2].ts,
              content |-> [u \in keys |-> chunks[lastOf(u)].v]]
        ELSE ParseError

Miss == [hit |-> FALSE, content |-> EmptyMap]

Hit(content) == [hit |-> TRUE, content |-> content]

\* Mutant of Expired: the entry already expires at exactly the TTL.
ExpiredAtTTL(clock, cache_time) == clock - cache_time >= CACHE_EXPIRY_HOURS

\* datetime.now() - cache_time > timedelta(hours=CACHE_EXPIRY_HOURS)
Expired(clock, cache_time) == clock - cache_time > CACHE_EXPIRY_HOURS

\* load_cache(): Miss stands for None.
load_cache(file, clock) ==
    IF ~file.exists THEN Miss
    ELSE LET cache_data == JsonLoad(file.chunks)
         IN  IF ~cache_data.ok THEN Miss
             ELSE IF Expired(clock, cache_data.timestamp) THEN Miss
             ELSE Hit(cache_data.content)

\* The ways a save_cache call can end: the write completes, open() raises, or
\* json.dump raises after some of the chunks have reached the file.
SaveOutcomes(content) ==
    {[kind |-> "ok", written |-> 0], [kind |-> "open_fails", written |-> 0]}
    \cup { [kind |-> "dump_fails", written |-> k] :
             k \in 0..(Len(JsonDump(0, content)) - 1) }

\* save_cache(content): open(CACHE_FILE, 'w') empties the file, json.dump then
\* writes chunk after chunk; an exception is swallowed.
save_cache(file, clock, content, outcome) ==
    IF outcome.kind = "open_fails" THEN file
    ELSE IF outcome.kind = "dump_fails"
         THEN [exists |-> TRUE,
               chunks |-> SubSeq(JsonDump(clock, content), 1, outcome.written)]
         ELSE [exists |-> TRUE, chunks |-> JsonDump(clock, content)]

\* History: the mapping and the time of the last save that completed.
\* intact: no later write has touched the file since.
SavedAfter(saved, clock, content, outcome) ==
    IF outcome.kind = "ok"
    THEN [at |-> clock, content |-> content, intact |-> TRUE]
    ELSE IF outcome.kind = "dump_fails" THEN [saved EXCEPT !.intact = FALSE]
    ELSE saved

NeverSaved == [at |-> -1, content |-> EmptyMap, intact |-> FALSE]

\* An entry a crawl can have left: the text of UrlAdm.
CachedAdm == [u \in {UrlAdm} |-> "t2"]

----------------------------------------------------------------------------
(* Calls at rest *)

NoIteration == [url |-> NoUrl, robots |-> "none", requested |-> FALSE]

IdleCrawl ==
    [pc |-> "idle", base_url |-> NoUrl, max_depth |-> 0, max_pages |-> 0,
     use_cache |-> FALSE, visited |-> {}, queue |-> <<>>, content |-> EmptyMap,
     page_count |-> 0, requested |-> <<>>, last |-> NoIteration,
     looped |-> FALSE, save |-> "none", result |-> EmptyMap]

\* A call that fetches a page: url, whether the policy refused it, whether the
\* page GET was issued, whether a page came back, what the caller holds
\* instead when none did (None, or the exception raised), and the snippets.
NoPage == [url |-> NoUrl, refused |-> FALSE, requested |-> FALSE, ok |-> FALSE,
           error |-> "None", snippets |-> <<>>]

NoSources == <<>>

NoResult == [success |-> FALSE, method |-> "none", sources |-> <<>>,
             answer |-> "none"]

IdleQuery ==
    [pc |-> "idle", use_live_search |-> FALSE, google |-> FALSE,
     num_results |-> 0, cse |-> "none", items |-> <<>>,
     fallbackSearched |-> FALSE, seedIdx |-> 1,
     probed |-> <<>>, relevant_pages |-> <<>>, search_results |-> <<>>,
     idx |-> 1, fetched |-> <<>>, outcomes |-> <<>>, all_snippets |-> <<>>,
     snippets |-> <<>>, genai |-> "none", genaiCalls |-> 0,
     unique_sources |-> NoSources, result |-> NoResult]

NeverGot == [u \in Urls |-> -1]

NoVerdict == [done |-> FALSE, web |-> FALSE, basic |-> FALSE]

policyVars == <<probe, verdict>>

callVars == <<args, ret, io>>

NoArgs == [fn |-> "none"]

\* No save_cache and no load_cache call has CACHE_FILE open.  saved: history,
\* the mappings passed to save_cache so far.
ClosedHandles ==
    [w |-> [pc |-> "closed", data |-> <<>>, written |-> 0],
     r |-> [pc |-> "closed", buf |-> <<>>],
     saved |-> {}]

NoReturn == [done |-> FALSE]

cacheVars == <<cacheFile, lastOp, loaded, lastSaved>>

netVars == <<prevGet, lastGet, page>>

InitRest ==
    /\ verdict = NoVerdict
    /\ now = 0
    /\ lastOp = "init"
    /\ loaded = Miss
    /\ prevGet = NeverGot
    /\ lastGet = NeverGot
    /\ page = NoPage
    /\ crawl = IdleCrawl
    /\ query = IdleQuery
    /\ ret = NoReturn
    /\ io = ClosedHandles

Tick ==
    /\ \E d \in TickSteps :
          /\ now + d <= MaxTime
          /\ now' = now + d

----------------------------------------------------------------------------
(* SpecPolicy: the two whitelist functions applied to every netloc *)

CheckHost ==
    /\ ~verdict.done
    /\ verdict' = [done |-> TRUE,
                   web |-> is_whitelisted_domain(Url(probe, "/")),
                   basic |-> whitelisted(Url(probe, "/"))]
    /\ UNCHANGED <<probe, callVars, now, cacheVars, netVars, crawl, query>>

InitPolicy ==
    /\ InitRest
    /\ probe \in Netlocs
    /\ args = NoArgs
    /\ cacheFile = AbsentFile
    /\ lastSaved = NeverSaved

NextPolicy == CheckHost

SpecPolicy == InitPolicy /\ [][NextPolicy]_vars

----------------------------------------------------------------------------
(* SpecCache: save_cache and load_cache called in any order as time passes *)

CacheUrls == {UrlRoot, UrlAdm}

Save(content, outcome) ==
    /\ cacheFile' = save_cache(cacheFile, now, content, outcome)
    /\ lastSaved' = SavedAfter(lastSaved, now, content, outcome)
    /\ lastOp' = "save"
    /\ loaded' = Miss
    /\ UNCHANGED <<policyVars, callVars, now, netVars, crawl, query>>

Load ==
    /\ loaded' = load_cache(cacheFile, now)
    /\ lastOp' = "load"
    /\ UNCHANGED <<policyVars, callVars, now, cacheFile, lastSaved, netVars, crawl, query>>

CacheTick ==
    /\ Tick
    /\ lastOp' = "tick"
    /\ loaded' = Miss
    /\ UNCHANGED <<policyVars, callVars, cacheFile, lastSaved, netVars, crawl, query>>

InitCache ==
    /\ InitRest
    /\ probe = <<>>
    /\ args = NoArgs
    /\ cacheFile = AbsentFile
    /\ lastSaved = NeverSaved

NextCache ==
    \/ \E content \in MappingsOver(CacheUrls) :
          \E outcome \in SaveOutcomes(content) : Save(content, outcome)
    \/ Load
    \/ CacheTick

SpecCache == InitCache /\ [][NextCache]_vars

----------------------------------------------------------------------------
(* SpecShared: one save_cache at a time running beside load_cache calls, each
   system call on CACHE_FILE a step of its own *)

\* The mappings saved: the same URLs with texts of the same length, so that a
\* chunk of one file starts where the same chunk of another does.
SharedContents == { [u \in CacheUrls |-> t] : t \in Texts }

\* save_cache(content): cache_data is built with the time of the call, then
\* open(CACHE_FILE, 'w') leaves the file empty.
SaveOpen(content) ==
    /\ io.w.pc = "closed"
    /\ cacheFile' = [exists |-> TRUE, chunks |-> <<>>]
    /\ io' = [io EXCEPT !.w = [pc |-> "open", data |-> JsonDump(now, content),
                               written |-> 0],
                        !.saved = @ \cup {content}]
    /\ UNCHANGED <<policyVars, args, ret, now, lastOp, loaded, lastSaved,
                   netVars, crawl, query>>

\* json.dump(cache_data, f): the next chunk reaches the file.
SaveWrite ==
    /\ io.w.pc = "open"
    /\ io.w.written < Len(io.w.data)
    /\ cacheFile' = [cacheFile EXCEPT
                       !.chunks = Append(@, io.w.data[io.w.written + 1])]
    /\ io' = [io EXCEPT !.w.written = @ + 1]
    /\ UNCHANGED <<policyVars, args, ret, now, lastOp, loaded, lastSaved,
                   netVars, crawl, query>>

\* The with block of save_cache is left: the file is closed.
SaveClose ==
    /\ io.w.pc = "open"
    /\ io.w.written = Len(io.w.data)
    /\ io' = [io EXCEPT !.w = ClosedHandles.w]
    /\ lastSaved' = [at |-> JsonLoad(io.w.data).timestamp,
                     content |-> JsonLoad(io.w.data).content, intact |-> TRUE]
    /\ UNCHANGED <<policyVars, args, ret, now, cacheFile, lastOp, loaded,
                   netVars, crawl, query>>

\* load_cache(): os.path.exists(CACHE_FILE), then open(CACHE_FILE, 'r').
LoadOpen ==
    /\ io.r.pc = "closed"
    /\ IF cacheFile.exists
       THEN /\ io' = [io EXCEPT !.r = [pc |-> "open", buf |-> <<>>]]
            /\ UNCHANGED <<lastOp, loaded>>
       ELSE /\ loaded' = Miss
            /\ lastOp' = "load"
            /\ UNCHANGED io
    /\ UNCHANGED <<policyVars, args, ret, now, cacheFile, lastSaved,
                   netVars, crawl, query>>

\* json.load(f) is json.loads(f.read()), and f.read() reads from the handle's
\* offset until a read returns nothing: a read returns what the file holds
\* beyond the offset at that moment; at end of file the text read so far is
\* parsed and the rest of load_cache runs.
LoadRead ==
    /\ io.r.pc = "open"
    /\ IF Len(cacheFile.chunks) > Len(io.r.buf)
       THEN /\ io' = [io EXCEPT !.r.buf =
                        @ \o SubSeq(cacheFile.chunks, Len(@) + 1,
                                    Len(cacheFile.chunks))]
            /\ UNCHANGED <<lastOp, loaded>>
       ELSE /\ loaded' = load_cache([exists |-> TRUE, chunks |-> io.r.buf], now)
            /\ lastOp' = "load"
            /\ io' = [io EXCEPT !.r = ClosedHandles.r]
    /\ UNCHANGED <<policyVars, args, ret, now, cacheFile, lastSaved,
                   netVars, crawl, query>>

SharedTick ==
    /\ Tick
    /\ UNCHANGED <<policyVars, callVars, cacheVars, netVars, crawl, query>>

InitShared == InitCache

NextShared ==
    \/ \E content \in SharedContents : SaveOpen(content)
    \/ SaveWrite
    \/ SaveClose
    \/ LoadOpen
    \/ LoadRead
    \/ SharedTick

SpecShared == InitShared /\ [][NextShared]_vars

----------------------------------------------------------------------------
(* Crawler: crawl_website over a fixed link graph *)

\* The hrefs of each page, after urljoin, in document order.
Links(url) ==
    IF url = UrlRoot THEN <<UrlAdm, UrlHunter, UrlEvil, UrlAdm>>
    ELSE IF url = UrlAdm THEN <<UrlRoot, UrlNews>>
    ELSE IF url = UrlHunter THEN <<UrlAdm>>
    ELSE IF url = UrlNews THEN <<UrlNces>>
    ELSE <<>>

\* What rparser.read() and can_fetch come to: allowed, disallowed, or read()
\* raises because robots.txt cannot be fetched.
RobotsOutcomes == {"allow", "deny", "error"}

\* Mutant of check_robots_txt: a robots.txt that cannot be fetched denies.
StrictRobots(url, outcome) == outcome = "allow"

\* check_robots_txt(url)
check_robots_txt(url, outcome) ==
    IF outcome = "error" THEN InScope[url] ELSE outcome = "allow"

\* What a page GET can come to: requests.get raises, a status other than 200,
\* or 200 with the joined text of the page's p, h1..h6 and li tags.
Responses ==
    {[kind |-> "raise", text |-> ""], [kind |-> "status", text |-> ""]}
    \cup { [kind |-> "200", text |-> t] : t \in {"t1", ""} }

\* Mutant of LoopGuard: the ceiling is tested one page late.
LoopGuardLate(c) == Len(c.queue) > 0 /\ c.page_count <= c.max_pages

\* while queue and page_count < max_pages
LoopGuard(c) == Len(c.queue) > 0 /\ c.page_count < c.max_pages

\* Mutant of Enqueue: every link not yet visited is queued, in scope or not.
RECURSIVE EnqueueAnyLink(_, _, _, _)
EnqueueAnyLink(queue, links, visited, depth) ==
    IF Len(links) = 0 THEN queue
    ELSE EnqueueAnyLink(IF Head(links) \notin visited
                        THEN Append(queue, [url |-> Head(links), depth |-> depth])
                        ELSE queue,
                        Tail(links), visited, depth)

RECURSIVE Enqueue(_, _, _, _)
\* for a in soup.find_all('a', href=True): ... queue.append((link, depth + 1))
Enqueue(queue, links, visited, depth) ==
    IF Len(links) = 0 THEN queue
    ELSE Enqueue(IF InScope[Head(links)] /\ Head(links) \notin visited
                 THEN Append(queue, [url |-> Head(links), depth |-> depth])
                 ELSE queue,
                 Tail(links), visited, depth)

\* Mutant of Skipped: a URL already visited is not recognised.
SkippedIfDeep(c, url, depth) == depth > c.max_depth

\* if url in visited or depth > max_depth: continue
Skipped(c, url, depth) == url \in c.visited \/ depth > c.max_depth

\* The body of one pass of the while loop, with the robots.txt outcome and
\* the page's response as the network gives them.
CrawlPass(c, robots, resp) ==
    LET url == Head(c.queue).url
        depth == Head(c.queue).depth
        popped == [c EXCEPT !.queue = Tail(c.queue), !.last = NoIteration]
    IN  IF Skipped(c, url, depth) THEN popped
        ELSE IF ~InScope[url] THEN popped
        ELSE IF ~check_robots_txt(url, robots)
             THEN [popped EXCEPT !.last = [url |-> url, robots |-> robots,
                                           requested |-> FALSE]]
        ELSE LET got == [popped EXCEPT
                            !.visited = @ \cup {url},
                            !.requested = Append(@, url),
                            !.last = [url |-> url, robots |-> robots,
                                      requested |-> TRUE]]
                 kept == IF resp.text /= ""
                         THEN [got EXCEPT
                                 !.content = [u \in DOMAIN @ \cup {url} |->
                                                IF u = url THEN resp.text ELSE @[u]],
                                 !.page_count = @ + 1]
                         ELSE got
             IN  IF resp.kind /= "200" THEN got
                 ELSE IF depth < c.max_depth
                      THEN [kept EXCEPT !.queue =
                              Enqueue(@, Links(url), got.visited, depth + 1)]
                      ELSE kept

\* Mutant of Served: the cached mapping is never returned.
NeverServed(cached) == FALSE

\* if cached_content: return cached_content
Served(cached) == cached.hit /\ cached.content /= EmptyMap

\* crawl_website(base_url, max_depth, max_pages, use_cache), up to the loop.
CrawlStart(base_url, max_depth, max_pages, use_cache) ==
    /\ crawl.pc = "idle"
    /\ LET cached == IF use_cache THEN load_cache(cacheFile, now) ELSE Miss
           call == [IdleCrawl EXCEPT !.base_url = base_url,
                                     !.max_depth = max_depth,
                                     !.max_pages = max_pages,
                                     !.use_cache = use_cache]
       IN  crawl' =
             IF Served(cached)
             THEN [call EXCEPT !.pc = "done", !.result = cached.content]
             ELSE IF ~InCuny[base_url]
                  THEN [call EXCEPT !.pc = "done"]
                  ELSE [call EXCEPT !.pc = "loop", !.looped = TRUE,
                                    !.queue = <<[url |-> base_url, depth |-> 0]>>]
    /\ lastOp' = "crawl"
    /\ UNCHANGED <<policyVars, callVars, now, cacheFile, loaded, lastSaved, netVars, query>>

CrawlIter(robots, resp) ==
    /\ crawl.pc = "loop"
    /\ LoopGuard(crawl)
    /\ crawl' = CrawlPass(crawl, robots, resp)
    /\ UNCHANGED <<policyVars, callVars, now, cacheVars, netVars, query>>

\* Mutant of ShouldSave: the result is never written to the cache.
NeverSave(c) == FALSE

\* Mutant of ShouldSave: the result is written whatever it holds and
\* whether or not caching is on.
AlwaysSave(c) == TRUE

\* if content and use_cache:
ShouldSave(c) == c.content /= EmptyMap /\ c.use_cache

\* The loop is left: save_cache(content) if there is content and caching is
\* on, then return content.  save: how the save_cache call ended, if made.
CrawlExit(outcome) ==
    /\ crawl.pc = "loop"
    /\ ~LoopGuard(crawl)
    /\ IF ShouldSave(crawl)
       THEN /\ cacheFile' = save_cache(cacheFile, now, crawl.content, outcome)
            /\ lastSaved' = SavedAfter(lastSaved, now, crawl.content, outcome)
            /\ crawl' = [crawl EXCEPT !.pc = "done", !.save = outcome.kind,
                                      !.result = crawl.content]
       ELSE /\ outcome.kind = "ok"
            /\ UNCHANGED <<cacheFile, lastSaved>>
            /\ crawl' = [crawl EXCEPT !.pc = "done", !.result = crawl.content]
    /\ UNCHANGED <<policyVars, callVars, now, lastOp, loaded, netVars, query>>

\* The caller takes the result.
CrawlReturn ==
    /\ crawl.pc = "done"
    /\ crawl' = [crawl EXCEPT !.pc = "returned"]
    /\ UNCHANGED <<policyVars, callVars, now, cacheVars, netVars, query>>

CrawlTick ==
    /\ crawl.pc = "idle"
    /\ Tick
    /\ UNCHANGED <<policyVars, callVars, cacheVars, netVars, crawl, query>>

CrawlBases == {UrlRoot, UrlNews}

\* What earlier runs can have left in CACHE_FILE: nothing, a complete entry
\* written at time 0, or the chunks of a write that failed.
InitialCaches ==
    {[file |-> AbsentFile, saved |-> NeverSaved]}
    \cup { [file |-> save_cache(AbsentFile, 0, content, outcome),
            saved |-> SavedAfter(NeverSaved, 0, content, outcome)] :
             content \in {EmptyMap, CachedAdm},
             outcome \in {[kind |-> "ok", written |-> 0],
                          [kind |-> "dump_fails", written |-> 3]} }

InitCrawl ==
    /\ InitRest
    /\ probe = <<>>
    /\ args = NoArgs
    /\ \E c \in InitialCaches : cacheFile = c.file /\ lastSaved = c.saved

NextCrawl ==
    \/ \E base_url \in CrawlBases, max_depth \in 0..MaxDepthArg,
          max_pages \in 0..MaxPagesArg, use_cache \in BOOLEAN :
          CrawlStart(base_url, max_depth, max_pages, use_cache)
    \/ \E robots \in RobotsOutcomes, resp \in Responses : CrawlIter(robots, resp)
    \/ \E outcome \in SaveOutcomes(crawl.content) : CrawlExit(outcome)
    \/ CrawlReturn
    \/ CrawlTick

SpecCrawl == InitCrawl /\ [][NextCrawl]_vars

\* Every request returns and the interpreter keeps running the call.
LiveCrawl ==
    /\ SpecCrawl
    /\ WF_vars(\E robots \in RobotsOutcomes, resp \in Responses :
                  CrawlIter(robots, resp))
    /\ WF_vars(\E outcome \in SaveOutcomes(crawl.content) : CrawlExit(outcome))

----------------------------------------------------------------------------
(* Page Fetcher: fetch_and_parse_page *)

SnippetScores == {2, 25}

\* The scores of the snippets a fetched page can yield for a query
\* (extract_specific_data's items, then the top ranked sections), in tenths.
PageScores == SeqsUpTo(SnippetScores, MaxPageSnippets)

\* A snippet carries the URL it is filed under; origin is the URL whose
\* response body its text was parsed from.
SnippetsOf(url, origin, scores) ==
    [i \in 1..Len(scores) |->
        [url |-> url, origin |-> origin, score |-> scores[i]]]

\* Where a whitelisted server may redirect a request to.
RedirectTarget == UrlEvil

\* What the page GET of fetch_and_parse_page can come to: requests.get raises
\* (a timeout), raise_for_status raises, or a body is parsed: the body of the
\* URL asked for, or, requests.get following redirects, the body of the
\* redirect target.
FetchResponses == {"raise", "status", "200", "redirected"}

\* The responses a call is tried with, each with the snippet scores its body
\* yields: every list of scores for a body of the URL asked for, one list for
\* the body of a redirect target, none for a failure.
FetchCases ==
    { [resp |-> "200", scores |-> scores] : scores \in PageScores }
    \cup {[resp |-> "redirected", scores |-> <<25>>],
          [resp |-> "raise", scores |-> <<>>],
          [resp |-> "status", scores |-> <<>>]}

\* response.text is the body of the last response of the redirect chain.
BodyOrigin(url, resp) == IF resp = "redirected" THEN RedirectTarget ELSE url

\* if not InScope[url] or not check_robots_txt(url): return None
FetchPermitted(url, robots) ==
    InScope[url] /\ check_robots_txt(url, robots)

\* fetch_and_parse_page(url): the request is issued when the policy permits
\* it; the result is a page (ok) or None.
fetch_and_parse_page(url, robots, resp, scores) ==
    IF ~FetchPermitted(url, robots)
    THEN [NoPage EXCEPT !.url = url, !.refused = TRUE]
    ELSE IF resp \in {"raise", "status"}
         THEN [NoPage EXCEPT !.url = url, !.requested = TRUE]
    ELSE [url |-> url, refused |-> FALSE, requested |-> TRUE, ok |-> TRUE,
          error |-> "none",
          snippets |-> SnippetsOf(url, BodyOrigin(url, resp), scores)]

\* basic_scraper.allowed_by_robots: a robots.txt that cannot be read denies.
allowed_by_robots(url, outcome) == outcome = "allow"

\* What basic_scraper.fetch can come to: the responses above, or a body that
\* is not text/html.
ScrapeResponses == FetchResponses \cup {"not_html"}

ScrapeCases == FetchCases \cup {[resp |-> "not_html", scores |-> <<>>]}

\* basic_scraper.scrape_one(url): ValueError outside the whitelist,
\* PermissionError when robots denies, else fetch(url), which raises the
\* requests exception, the HTTPError of raise_for_status or the ValueError of
\* its content-type guard, or returns the text the record is built from.
scrape_one(url, robots, resp, scores) ==
    IF ~whitelisted(url)
    THEN [NoPage EXCEPT !.url = url, !.refused = TRUE, !.error = "ValueError"]
    ELSE IF ~allowed_by_robots(url, robots)
    THEN [NoPage EXCEPT !.url = url, !.refused = TRUE, !.error = "PermissionError"]
    ELSE IF resp = "raise"
    THEN [NoPage EXCEPT !.url = url, !.requested = TRUE,
                        !.error = "RequestException"]
    ELSE IF resp = "status"
    THEN [NoPage EXCEPT !.url = url, !.requested = TRUE, !.error = "HTTPError"]
    ELSE IF resp = "not_html"
    THEN [NoPage EXCEPT !.url = url, !.requested = TRUE, !.error = "ValueError"]
    ELSE [url |-> url, refused |-> FALSE, requested |-> TRUE, ok |-> TRUE,
          error |-> "none",
          snippets |-> SnippetsOf(url, BodyOrigin(url, resp), scores)]

\* History of the page GETs fetch_and_parse_page issues.
NoteGet(fetched) ==
    IF fetched.requested
    THEN /\ prevGet' = [prevGet EXCEPT ![fetched.url] = lastGet[fetched.url]]
         /\ lastGet' = [lastGet EXCEPT ![fetched.url] = now]
    ELSE UNCHANGED <<prevGet, lastGet>>

----------------------------------------------------------------------------
(* SpecFetch: fetch_and_parse_page called for any URL as time passes *)

FetchAndParse(url, robots, resp, scores) ==
    /\ page' = fetch_and_parse_page(url, robots, resp, scores)
    /\ NoteGet(page')
    /\ lastOp' = "fetch"
    /\ UNCHANGED <<policyVars, callVars, now, cacheFile, loaded, lastSaved, crawl, query>>

ScrapeOne(url, robots, resp, scores) ==
    /\ page' = scrape_one(url, robots, resp, scores)
    /\ lastOp' = "scrape"
    /\ UNCHANGED <<policyVars, callVars, now, cacheFile, loaded, lastSaved,
                   prevGet, lastGet, crawl, query>>

FetchTick ==
    /\ Tick
    /\ lastOp' = "tick"
    /\ UNCHANGED <<policyVars, callVars, cacheFile, loaded, lastSaved, netVars, crawl, query>>

FetchUrls == {UrlAdm, UrlEvil}

InitFetch ==
    /\ InitRest
    /\ probe = <<>>
    /\ args = NoArgs
    /\ cacheFile = save_cache(AbsentFile, 0, CachedAdm, [kind |-> "ok", written |-> 0])
    /\ lastSaved = [at |-> 0, content |-> CachedAdm, intact |-> TRUE]

NextFetch ==
    \/ \E url \in FetchUrls, robots \in RobotsOutcomes, c \in FetchCases :
          FetchAndParse(url, robots, c.resp, c.scores)
    \/ \E url \in FetchUrls, robots \in RobotsOutcomes, c \in ScrapeCases :
          ScrapeOne(url, robots, c.resp, c.scores)
    \/ FetchTick

SpecFetch == InitFetch /\ [][NextFetch]_vars

----------------------------------------------------------------------------
(* Page Discovery and the query: get_cuny_answer_for_chatbot *)

MAX_SEARCH_RESULTS == 10

\* search_results[:5]
TopPages == 5

\* max_snippets=5
MaxSnippets == 5

\* snippets[:3]
MaxSources == 3

\* if relevance_score > 0.1, in tenths
MinRelevance == 1

\* 'relevance_score': 1.0 of a provider item, in tenths
CseScore == 10

Take(seq, n) == SubSeq(seq, 1, IF Len(seq) < n THEN Len(seq) ELSE n)

\* Where x goes in a list sorted by score, highest first: behind every item
\* that scores at least as much (the sort is stable).
RECURSIVE InsertByScore(_, _)
InsertByScore(sorted, x) ==
    IF Len(sorted) = 0 THEN <<x>>
    ELSE IF Head(sorted).score >= x.score
         THEN <<Head(sorted)>> \o InsertByScore(Tail(sorted), x)
         ELSE <<x>> \o sorted

\* Mutant of SortByScore: the list is left in the order it was built.
Unsorted(seq) == seq

RECURSIVE SortByScore(_)
\* list.sort(key=lambda x: x['relevance_score'], reverse=True)
SortByScore(seq) ==
    IF Len(seq) = 0 THEN <<>>
    ELSE InsertByScore(SortByScore(SubSeq(seq, 1, Len(seq) - 1)), seq[Len(seq)])

\* core_cuny_pages + external_sources, three of them.
SeedPages == <<UrlAdm, UrlHunter, UrlNces>>

\* The URLs the search provider may return.
ProviderUrls == {UrlAdm, UrlHunter, UrlEvil}

\* A seed's GET: requests.get raises, another status, or 200 with the page's
\* calculate_intelligent_relevance score in tenths.
SeedResponses ==
    {[kind |-> "raise", score |-> 0], [kind |-> "status", score |-> 0]}
    \cup { [kind |-> "200", score |-> sc] : sc \in {1, 5, 20} }

FallbackResult ==
    [success |-> FALSE, method |-> "fallback", sources |-> <<>>,
     answer |-> "no_information"]

\* Mutant of FilterWhitelisted: every provider item becomes a candidate.
KeepAll(items) == [i \in 1..Len(items) |-> [url |-> items[i], score |-> CseScore]]

RECURSIVE FilterWhitelisted(_)
\* for item in data.get('items', []): if InScope[url]: append
FilterWhitelisted(items) ==
    IF Len(items) = 0 THEN <<>>
    ELSE (IF InScope[Head(items)]
          THEN <<[url |-> Head(items), score |-> CseScore]>>
          ELSE <<>>) \o FilterWhitelisted(Tail(items))

\* search_with_google_cse: the candidates, [] when the call fails.
search_with_google_cse(outcome, items, num_results) ==
    IF outcome = "fail" THEN <<>>
    ELSE FilterWhitelisted(Take(items, IF num_results < 10 THEN num_results ELSE 10))

RECURSIVE Cite(_, _, _)
\* answer_with_genai's loop over the snippets: a URL not yet in unique_sources
\* is entered with the running citation_index.
Cite(snippets, sources, citation_index) ==
    IF Len(snippets) = 0 THEN sources
    ELSE LET source_key == Head(snippets).url
             seen == \E i \in 1..Len(sources) : sources[i].url = source_key
         IN  IF seen THEN Cite(Tail(snippets), sources, citation_index)
             ELSE Cite(Tail(snippets),
                       Append(sources, [url |-> source_key,
                                        citation_num |-> citation_index]),
                       citation_index + 1)

\* unique_sources as answer_with_genai builds it, in insertion order.
unique_sources(snippets) == Cite(snippets, NoSources, 1)

\* Mutant of SourcesOf: every snippet is cited, not the first three.
EverySource(snippets) == [i \in 1..Len(snippets) |-> snippets[i].url]

\* sources = [... for s in snippets[:3]]
SourcesOf(snippets) ==
    [i \in 1..Len(Take(snippets, MaxSources)) |-> snippets[i].url]

\* Mutant of NextCandidate: the loop is left at the first page that fails.
StopAtFailure(idx, got, last) == IF got.ok THEN idx + 1 ELSE last + 1

\* for result in search_results[:5]: the loop goes on to the next candidate
\* whatever fetch_and_parse_page returned.
NextCandidate(idx, got, last) == idx + 1

\* Mutant of ShouldAnswer: the synthesizer is called whatever was found.
AlwaysAnswer(snippets) == TRUE

\* if snippets: (get_cuny_answer_for_chatbot)
ShouldAnswer(snippets) == Len(snippets) > 0

\* get_cuny_answer_for_chatbot(query, use_live_search), up to the search;
\* search_cuny_pages picks the provider when both credentials are set.
QueryStart(use_live_search, google) ==
    /\ query.pc = "idle"
    /\ query' =
         IF ~use_live_search
         THEN [IdleQuery EXCEPT !.pc = "done", !.result = FallbackResult]
         ELSE IF google
              THEN [IdleQuery EXCEPT !.pc = "cse", !.use_live_search = TRUE,
                                     !.num_results = MAX_SEARCH_RESULTS,
                                     !.google = TRUE]
              ELSE [IdleQuery EXCEPT !.pc = "seeds", !.use_live_search = TRUE,
                                     !.num_results = MAX_SEARCH_RESULTS,
                                     !.fallbackSearched = TRUE]
    /\ lastOp' = "query"
    /\ UNCHANGED <<policyVars, callVars, now, cacheFile, loaded, lastSaved, netVars, crawl>>

\* search_cuny_pages returns what search_with_google_cse returns.
SearchCse(outcome, items) ==
    /\ query.pc = "cse"
    /\ query' = [query EXCEPT
                   !.pc = "fetch",
                   !.cse = outcome,
                   !.items = IF outcome = "ok" THEN items ELSE <<>>,
                   !.search_results =
                       search_with_google_cse(outcome, items, query.num_results)]
    /\ UNCHANGED <<policyVars, callVars, now, cacheVars, netVars, crawl>>

\* One pass of search_with_fallback's loop over all_pages.
SeedProbe(resp) ==
    /\ query.pc = "seeds"
    /\ query.seedIdx <= Len(SeedPages)
    /\ LET url == SeedPages[query.seedIdx]
       IN  query' = [query EXCEPT
                       !.seedIdx = @ + 1,
                       !.probed = Append(@, [url |-> url, kind |-> resp.kind,
                                             score |-> resp.score]),
                       !.relevant_pages =
                           IF resp.kind = "200" /\ resp.score > MinRelevance
                           THEN Append(@, [url |-> url, score |-> resp.score])
                           ELSE @]
    /\ UNCHANGED <<policyVars, callVars, now, cacheVars, netVars, crawl>>

\* relevant_pages.sort(...); return relevant_pages[:num_results]
SeedsDone ==
    /\ query.pc = "seeds"
    /\ query.seedIdx > Len(SeedPages)
    /\ query' = [query EXCEPT
                   !.pc = "fetch",
                   !.search_results =
                       Take(SortByScore(query.relevant_pages), query.num_results)]
    /\ UNCHANGED <<policyVars, callVars, now, cacheVars, netVars, crawl>>

\* One pass of get_relevant_snippets' loop over search_results[:5].
FetchCandidate(robots, resp, scores) ==
    /\ query.pc = "fetch"
    /\ query.idx <= Len(Take(query.search_results, TopPages))
    /\ LET url == query.search_results[query.idx].url
           got == fetch_and_parse_page(url, robots, resp, scores)
           last == Len(Take(query.search_results, TopPages))
       IN  /\ query' = [query EXCEPT
                          !.idx = NextCandidate(@, got, last),
                          !.fetched = IF got.requested THEN Append(@, url) ELSE @,
                          !.outcomes = Append(@, got),
                          !.all_snippets = IF got.ok THEN @ \o got.snippets ELSE @]
           /\ NoteGet(got)
    /\ UNCHANGED <<policyVars, callVars, now, cacheVars, page, crawl>>

\* get_relevant_snippets returns all_snippets[:max_snippets], sorted; without
\* snippets get_cuny_answer_for_chatbot returns the fallback response.
Assemble ==
    /\ query.pc = "fetch"
    /\ query.idx > Len(Take(query.search_results, TopPages))
    /\ LET snippets == Take(SortByScore(query.all_snippets), MaxSnippets)
       IN  query' = IF ShouldAnswer(snippets)
                    THEN [query EXCEPT !.pc = "genai", !.snippets = snippets]
                    ELSE [query EXCEPT !.pc = "done", !.snippets = snippets,
                                       !.result = FallbackResult]
    /\ UNCHANGED <<policyVars, callVars, now, cacheVars, netVars, crawl>>

\* answer_with_genai: the completion call returns or raises, and a string
\* comes back either way; get_cuny_answer_for_chatbot wraps it.
Synthesize(outcome) ==
    /\ query.pc = "genai"
    /\ query' = [query EXCEPT
                   !.pc = "done",
                   !.genai = outcome,
                   !.genaiCalls = @ + 1,
                   !.unique_sources = unique_sources(query.snippets),
                   !.result =
                       [success |-> TRUE, method |-> "live_search",
                        sources |-> SourcesOf(query.snippets),
                        answer |-> IF outcome = "ok" THEN "generated"
                                   ELSE "error_generating_answer"]]
    /\ UNCHANGED <<policyVars, callVars, now, cacheVars, netVars, crawl>>

QueryReturn ==
    /\ query.pc = "done"
    /\ query' = [query EXCEPT !.pc = "returned"]
    /\ UNCHANGED <<policyVars, callVars, now, cacheVars, netVars, crawl>>

InitQuery == InitFetch

NextQuery ==
    \/ \E use_live_search \in BOOLEAN, google \in BOOLEAN :
          QueryStart(use_live_search, google)
    \/ \E outcome \in {"ok", "fail"}, items \in SeqsUpTo(ProviderUrls, MaxItems) :
          SearchCse(outcome, items)
    \/ \E resp \in SeedResponses : SeedProbe(resp)
    \/ SeedsDone
    \/ \E robots \in RobotsOutcomes, c \in FetchCases :
          FetchCandidate(robots, c.resp, c.scores)
    \/ Assemble
    \/ \E outcome \in {"ok", "raise"} : Synthesize(outcome)
    \/ QueryReturn

SpecQuery == InitQuery /\ [][NextQuery]_vars

----------------------------------------------------------------------------
(* SpecDiscover: search_with_fallback called with any result limit *)

\* search_with_fallback(query, num_results), up to its loop.
DiscoverStart(num_results) ==
    /\ query.pc = "idle"
    /\ query' = [IdleQuery EXCEPT !.pc = "seeds", !.num_results = num_results,
                                  !.fallbackSearched = TRUE]
    /\ lastOp' = "search"
    /\ UNCHANGED <<policyVars, callVars, now, cacheFile, loaded, lastSaved,
                   netVars, crawl>>

Limits == {0, 1, 2, MAX_SEARCH_RESULTS}

NextDiscover ==
    \/ \E num_results \in Limits : DiscoverStart(num_results)
    \/ \E resp \in SeedResponses : SeedProbe(resp)
    \/ SeedsDone

SpecDiscover == InitQuery /\ [][NextDiscover]_vars

----------------------------------------------------------------------------
(* Page-level score: calculate_intelligent_relevance *)

\* The words a query is made of here, with len(word).  A page text, a URL and
\* a title are the sets of terms that occur in them as substrings, which is
\* all the function asks of them.
WordLen == [w \in {"admission", "fee", "business", "law", "cuny"} |->
               CASE w = "admission" -> 9
                 [] w = "fee" -> 3
                 [] w = "business" -> 8
                 [] w = "law" -> 3
                 [] w = "cuny" -> 4]

QueryVocabulary == DOMAIN WordLen

TextTerms == QueryVocabulary \cup {"error", "404"}

\* program_keywords, the two programs whose keywords are in the vocabulary.
program_keywords ==
    [program \in {"business", "law"} |->
        IF program = "business" THEN {"business"} ELSE {"law"}]

\* The word lists of the content-type boosts: query side, page side.
IntentWords ==
    [intent \in {"admission", "tuition"} |->
        IF intent = "admission"
        THEN [query |-> {"admission"}, page |-> {"admission"}]
        ELSE [query |-> {"fee"}, page |-> {"fee"}]]

\* ['404', 'not found', 'error', 'page not available']
ErrorWords == {"404", "not found", "error", "page not available"}

\* Scores of one query are counted in units of 1/(1000 * len(query_words)).
Unit(query_words) ==
    IF query_words = {} THEN 1 ELSE Cardinality(query_words)

Min(a, b) == IF a < b THEN a ELSE b

\* Mutant of calculate_intelligent_relevance's last two steps: the cap is
\* applied before the penalty.
CapThenPenalize(base_score, page_text, unit) ==
    LET capped == Min(base_score, 2000 * unit)
    IN  IF page_text \cap ErrorWords /= {} THEN capped \div 10 ELSE capped

\* 6. base_score *= 0.1 on an error word; return min(base_score, 2.0)
PenalizeThenCap(base_score, page_text, unit) ==
    LET penalized == IF page_text \cap ErrorWords /= {}
                     THEN base_score \div 10 ELSE base_score
    IN  Min(penalized, 2000 * unit)

\* calculate_intelligent_relevance, steps 1 to 6 in the order of the code.
calculate_intelligent_relevance(query_words, page_text, url, title) ==
    LET unit == Unit(query_words)
        word_matches == Cardinality({w \in query_words : w \in page_text})
        s1 == IF word_matches > 0 THEN word_matches * 400 ELSE 0
        query_phrases == {w \in query_words : WordLen[w] > 3}
        s2 == s1 + 300 * unit * Cardinality({ph \in query_phrases : ph \in page_text})
        programs == {pr \in DOMAIN program_keywords :
                        /\ query_words \cap program_keywords[pr] /= {}
                        /\ page_text \cap program_keywords[pr] /= {}}
        s3 == s2 + 500 * unit * Cardinality(programs)
        s4a == IF query_words \cap url /= {} THEN s3 + 300 * unit ELSE s3
        s4 == IF query_words \cap title /= {} THEN s4a + 200 * unit ELSE s4a
        intents == {it \in DOMAIN IntentWords :
                        /\ query_words \cap IntentWords[it].query /= {}
                        /\ page_text \cap IntentWords[it].page /= {}}
        s5 == s4 + 400 * unit * Cardinality(intents)
    IN  PenalizeThenCap(s5, page_text, unit)

ScoreArgs ==
    [fn : {"score"}, query_words : SUBSET QueryVocabulary,
     page_text : SUBSET TextTerms, url : SUBSET {"admission"},
     title : SUBSET {"cuny"}]

Score ==
    /\ args.fn = "score"
    /\ ~ret.done
    /\ ret' = [done |-> TRUE,
               score |-> calculate_intelligent_relevance(
                             args.query_words, args.page_text, args.url, args.title)]
    /\ UNCHANGED <<policyVars, args, io, now, cacheVars, netVars, crawl, query>>

----------------------------------------------------------------------------
(* Section texts, for the Typed Extractor and the section ranker *)

\* A section text is its words in order and len(text).  Stems: the keywords
\* and markers a word holds as substrings; "#" stands for a digit.
Stems == [w \in {"45", "credits", "transferred", "transfer", "program",
                 "must", "campus", "housing", "tuition"} |->
             CASE w = "45" -> {"#"}
               [] w = "credits" -> {"credit", "credits"}
               [] w = "transferred" -> {"transfer"}
               [] w = "transfer" -> {"transfer"}
               [] w = "program" -> {"program"}
               [] w = "must" -> {"must"}
               [] w = "housing" -> {"housing"}
               [] w = "tuition" -> {"tuition"}
               [] OTHER -> {}]

\* keyword in text_lower
HasStem(words, stems) ==
    \E i \in 1..Len(words) : (Stems[words[i]] \cup {words[i]}) \cap stems /= {}

\* set(text_lower.split())
WordSet(words) == {words[i] : i \in 1..Len(words)}

\* Mutant of Found: no pattern is ever found.
NeverFound(pattern, words) == FALSE

\* re.findall(pattern, text, re.IGNORECASE) is not empty, for the two shapes
\* of pattern in data_patterns: r'a.*b' and r'\d+ b'.
Found(pattern, words) ==
    IF pattern.shape = "then"
    THEN \E i \in 1..Len(words) : \E j \in (i + 1)..Len(words) :
            /\ pattern.a \in Stems[words[i]]
            /\ pattern.b \in Stems[words[j]]
    ELSE \E i \in 1..(Len(words) - 1) :
            /\ pattern.a \in Stems[words[i]]
            /\ words[i + 1] = pattern.b

\* data_patterns, in table order, the two data types whose keywords are in
\* the vocabulary; boost in hundredths.
data_patterns ==
    << [data_type |-> "transfer_credits",
        keywords |-> {"transfer", "credit", "credits", "transcript",
                      "evaluation", "articulation"},
        patterns |-> {[shape |-> "next", a |-> "#", b |-> "credits"],
                      [shape |-> "then", a |-> "transfer", b |-> "#"],
                      [shape |-> "then", a |-> "credit", b |-> "transfer"],
                      [shape |-> "then", a |-> "articulation", b |-> "agreement"]},
        boost |-> 250],
       [data_type |-> "programs_majors",
        keywords |-> {"program", "major", "degree", "bachelor", "master",
                      "doctorate", "certificate"},
        patterns |-> {[shape |-> "then", a |-> "program", b |-> "#"],
                      [shape |-> "then", a |-> "major", b |-> "#"],
                      [shape |-> "then", a |-> "degree", b |-> "#"],
                      [shape |-> "then", a |-> "credit", b |-> "#"]},
        boost |-> 200] >>

Sec(words, len) == [text |-> words, len |-> len]

SecCredits == Sec(<<"45", "credits", "transferred">>, 22)
SecTransferLong == Sec(<<"transfer", "program">>, 350)
SecMust == Sec(<<"campus", "must">>, 500)
SecNumberLong == Sec(<<"campus", "45">>, 500)
SecCampusLong == Sec(<<"campus">>, 700)
SecProgram == Sec(<<"program", "45">>, 25)
SecHousing == Sec(<<"credits", "housing">>, 25)
SecCreditsLong == Sec(<<"campus", "45", "credits">>, 350)
SecLong == Sec(<<"program", "campus">>, 1200)
SecTransferProgram == Sec(<<"transfer", "program", "45">>, 700)

\* The section texts pages are made of.
SectionTexts == {SecCredits, SecTransferLong, SecMust, SecNumberLong,
                 SecCampusLong, SecProgram, SecHousing, SecCreditsLong, SecLong,
                 SecTransferProgram}

\* The queries asked, as query.lower().split().
Queries == {<<"transfer", "credits">>, <<"program">>, <<"campus">>,
            <<"tuition">>, <<"campus", "program">>, <<"transfer", "campus">>,
            <<"transfer", "program">>}

----------------------------------------------------------------------------
(* Typed Extractor: extract_specific_data *)

\* An extracted item: the section it was made from (its position in
\* content_sections and its text), data_type, and relevance_score as the
\* fraction num/den.
Item(i, section, data_type, num, den) ==
    [section |-> i, text |-> section.text, len |-> section.len,
     data_type |-> data_type, score |-> [num |-> num, den |-> den]]

\* One data type's pass over the sections: a section with a keyword becomes
\* an item if a pattern is found in it or it is shorter than 300.
TypedPass(config, q, sections) ==
    IF ~HasStem(q, config.keywords) THEN <<>>
    ELSE LET Qualifies(i) ==
                 /\ HasStem(sections[i].text, config.keywords)
                 /\ \/ \E pattern \in config.patterns :
                          Found(pattern, sections[i].text)
                    \/ sections[i].len < 300
             picked == SelectSeq([i \in 1..Len(sections) |-> i], Qualifies)
         IN  [k \in 1..Len(picked) |->
                 Item(picked[k], sections[picked[k]], config.data_type,
                      config.boost, 100)]

RECURSIVE TypedItems(_, _, _)
\* for data_type, config in data_patterns.items(): ...
TypedItems(k, q, sections) ==
    IF k > Len(data_patterns) THEN <<>>
    ELSE TypedPass(data_patterns[k], q, sections)
            \o TypedItems(k + 1, q, sections)

\* The comprehensive pass over the sections.
ComprehensiveItems(q, sections) ==
    LET query_words == WordSet(q)
        Overlap(i) == Cardinality(query_words \cap WordSet(sections[i].text))
        has_numbers(i) == HasStem(sections[i].text, {"#"})
        has_percentages(i) == HasStem(sections[i].text, {"%"})
        has_money(i) == HasStem(sections[i].text, {"$"})
        has_dates(i) ==
            HasStem(sections[i].text, {"2024", "2025", "deadline", "date", "due"})
        has_procedures(i) ==
            HasStem(sections[i].text, {"step", "process", "procedure", "how to", "follow"})
        has_requirements(i) ==
            HasStem(sections[i].text, {"require", "need", "must", "should", "prerequisite"})
        score_boost(i) ==
            100 + (IF has_procedures(i) THEN 50 ELSE 0)
                + (IF has_requirements(i) THEN 50 ELSE 0)
                + (IF has_numbers(i) \/ has_percentages(i) \/ has_money(i)
                   THEN 30 ELSE 0)
        max_length(i) ==
            IF has_procedures(i) \/ has_requirements(i) THEN 800 ELSE 400
        Qualifies(i) ==
            /\ Overlap(i) > 0
            /\ \/ has_numbers(i) \/ has_percentages(i) \/ has_money(i)
               \/ has_dates(i) \/ has_procedures(i) \/ has_requirements(i)
            /\ sections[i].len <= max_length(i)
        picked == SelectSeq([i \in 1..Len(sections) |-> i], Qualifies)
        nq == Cardinality(query_words)
    IN  [k \in 1..Len(picked) |->
            Item(picked[k], sections[picked[k]], "comprehensive",
                 150 * nq + Overlap(picked[k]) * score_boost(picked[k]),
                 100 * nq)]

\* The last pass: any section sharing a word with the query, under 600.
FallbackItems(q, sections) ==
    LET query_words == WordSet(q)
        Overlap(i) == Cardinality(query_words \cap WordSet(sections[i].text))
        Qualifies(i) == Overlap(i) > 0 /\ sections[i].len < 600
        picked == SelectSeq([i \in 1..Len(sections) |-> i], Qualifies)
        nq == Cardinality(query_words)
    IN  [k \in 1..Len(picked) |->
            Item(picked[k], sections[picked[k]], "fallback",
                 100 * nq + 50 * Overlap(picked[k]), 100 * nq)]

\* Mutant of NothingExtracted: a later pass runs whatever came before.
RunAnyway(extracted_data) == TRUE

\* if not extracted_data:
NothingExtracted(extracted_data) == extracted_data = <<>>

\* Mutant of extract_specific_data: the three passes all run.
EveryPass(q, sections) ==
    TypedItems(1, q, sections) \o ComprehensiveItems(q, sections)
        \o FallbackItems(q, sections)

\* extract_specific_data(query, url, page_content): the items of the typed
\* pass, then the two passes guarded by 'if not extracted_data'.
extract_specific_data(q, sections) ==
    LET typed == TypedItems(1, q, sections)
        second == IF NothingExtracted(typed)
                  THEN typed \o ComprehensiveItems(q, sections)
                  ELSE typed
    IN  IF NothingExtracted(second)
        THEN second \o FallbackItems(q, sections)
        ELSE second

\* The content_sections of the pages handed to the extractor.
PageSections == SeqsUpTo(SectionTexts, MaxSections)

ExtractArgs == [fn : {"extract"}, query : Queries, sections : PageSections]

Extract ==
    /\ args.fn = "extract"
    /\ ~ret.done
    /\ ret' = [done |-> TRUE,
               items |-> extract_specific_data(args.query, args.sections)]
    /\ UNCHANGED <<policyVars, args, io, now, cacheVars, netVars, crawl, query>>

----------------------------------------------------------------------------
(* Section ranker: rank_content_relevance *)

\* A section score is the fraction num/den.
Times(score, a, b) == [num |-> score.num * a, den |-> score.den * b]

Above(x, y) == x.num * y.den > y.num * x.den

\* topic_keywords, the two topics whose keywords are in the vocabulary.
topic_keywords ==
    [topic \in {"tuition", "program"} |->
        IF topic = "tuition"
        THEN {"tuition", "cost", "fee", "price", "financial"}
        ELSE {"program", "degree", "major", "course", "curriculum"}]

RECURSIVE TopicBoost(_, _, _, _)
\* relevance_score *= 1.3 for every topic the query names and the text holds.
TopicBoost(score, topics, query_words, text) ==
    IF topics = {} THEN score
    ELSE LET topic == CHOOSE t \in topics : TRUE
             boosted == IF /\ query_words \cap topic_keywords[topic] /= {}
                           /\ HasStem(text, topic_keywords[topic])
                        THEN Times(score, 13, 10) ELSE score
         IN  TopicBoost(boosted, topics \ {topic}, query_words, text)

\* Mutant of TagWeight: the tag is ignored.
NoTagWeight(score, tag) == score

\* Boost scores for headings: h1..h3 * 2.0, h4..h6 * 1.5.
TagWeight(score, tag) ==
    IF tag \in {"h1", "h2", "h3"} THEN Times(score, 2, 1)
    ELSE IF tag \in {"h4", "h5", "h6"} THEN Times(score, 3, 2)
    ELSE score

\* The relevance_score rank_content_relevance gives one section.
SectionScore(q, tag, section) ==
    LET query_words == WordSet(q)
        nq == Cardinality(query_words)
        word_overlap == Cardinality(query_words \cap WordSet(section.text))
        base_score == [num |-> word_overlap, den |-> IF nq > 1 THEN nq ELSE 1]
        phrased == IF \E i \in 1..Len(q) : HasStem(section.text, {q[i]})
                   THEN Times(base_score, 3, 2) ELSE base_score
        topical == TopicBoost(phrased, DOMAIN topic_keywords, query_words,
                              section.text)
        tagged == TagWeight(topical, tag)
        sized == IF section.len < 50 THEN Times(tagged, 3, 10)
                 ELSE IF section.len > 1000 THEN Times(tagged, 8, 10)
                 ELSE tagged
        off_topic ==
            /\ HasStem(section.text,
                       {"financial aid", "scholarship", "housing", "meal plan"})
            /\ query_words \cap {"financial", "aid", "scholarship", "housing",
                                 "meal"} = {}
    IN  IF off_topic THEN Times(sized, 2, 10) ELSE sized

\* Where a section goes in a list sorted by relevance_score, highest first.
RECURSIVE InsertRanked(_, _)
InsertRanked(sorted, x) ==
    IF Len(sorted) = 0 THEN <<x>>
    ELSE IF Above(x.relevance_score, Head(sorted).relevance_score)
         THEN <<x>> \o sorted
         ELSE <<Head(sorted)>> \o InsertRanked(Tail(sorted), x)

RECURSIVE SortRanked(_)
SortRanked(seq) ==
    IF Len(seq) = 0 THEN <<>>
    ELSE InsertRanked(SortRanked(SubSeq(seq, 1, Len(seq) - 1)), seq[Len(seq)])

\* rank_content_relevance(query, content_sections): every section gets its
\* relevance_score; those above 0.1 are returned, highest first.
rank_content_relevance(q, content_sections) ==
    LET scored == [i \in 1..Len(content_sections) |->
                      [tag |-> content_sections[i].tag,
                       text |-> content_sections[i].text,
                       len |-> content_sections[i].len,
                       relevance_score |->
                           SectionScore(q, content_sections[i].tag,
                                        content_sections[i])]]
        Meaningful(x) == Above(x.relevance_score, [num |-> 1, den |-> 10])
    IN  [scored |-> scored, ranked |-> SelectSeq(SortRanked(scored), Meaningful)]

Headings == {"h1", "h2", "h3", "h4", "h5", "h6"}

\* A heading and a paragraph with the same text.
RankArgs == [fn : {"rank"}, query : Queries, text : SectionTexts, heading : Headings]

Rank ==
    /\ args.fn = "rank"
    /\ ~ret.done
    /\ LET Tagged(tag) == [tag |-> tag, text |-> args.text.text,
                           len |-> args.text.len]
           out == rank_content_relevance(args.query,
                                         <<Tagged(args.heading), Tagged("p")>>)
       IN  ret' = [done |-> TRUE, scored |-> out.scored, ranked |-> out.ranked]
    /\ UNCHANGED <<policyVars, args, io, now, cacheVars, netVars, crawl, query>>

----------------------------------------------------------------------------
(* Snippets of one page: steps 3 to 6 of get_relevant_snippets *)

MAX_SNIPPET_LENGTH == 500

\* for section in ranked_sections[:3]
TopSections == 3

\* The snippet made of an extracted item: its text as it is.
ItemSnippet(item) ==
    [text |-> item.text, len |-> item.len, relevance_score |-> item.score,
     source |-> item.data_type]

\* The snippet made of a ranked section: section['text'][:MAX_SNIPPET_LENGTH].
SectionSnippet(section) ==
    [text |-> section.text, len |-> Min(section.len, MAX_SNIPPET_LENGTH),
     relevance_score |-> section.relevance_score, source |-> "live_search"]

\* get_relevant_snippets for a search result of one page whose sections are
\* paragraphs: the extracted items, then the top ranked sections, sorted by
\* relevance_score, the first max_snippets of them.
get_relevant_snippets(q, sections) ==
    LET specific_data == extract_specific_data(q, sections)
        content_sections == [i \in 1..Len(sections) |->
                                [tag |-> "p", text |-> sections[i].text,
                                 len |-> sections[i].len]]
        ranked_sections == rank_content_relevance(q, content_sections).ranked
        top == Take(ranked_sections, TopSections)
        all_snippets ==
            [i \in 1..Len(specific_data) |-> ItemSnippet(specific_data[i])]
            \o [i \in 1..Len(top) |-> SectionSnippet(top[i])]
    IN  Take(SortRanked(all_snippets), MaxSnippets)

SnippetArgs == [fn : {"snippets"}, query : Queries, sections : PageSections]

Snippets ==
    /\ args.fn = "snippets"
    /\ ~ret.done
    /\ ret' = [done |-> TRUE,
               snippets |-> get_relevant_snippets(args.query, args.sections)]
    /\ UNCHANGED <<policyVars, args, io, now, cacheVars, netVars, crawl, query>>

----------------------------------------------------------------------------
(* Page sections: what fetch_and_parse_page keeps of a tag's text *)

\* The text of a tag is its runs of characters in order, each a run of n
\* non-blank characters ("word") or of n whitespace characters ("space").
Run(kind, n) == [kind |-> kind, n |-> n]

Runs == {Run("word", 1), Run("word", 9), Run("word", 10), Run("word", 25),
         Run("space", 1), Run("space", 30)}

\* Longest tag text, in runs.
MaxRuns == 3

TagTexts == SeqsUpTo(Runs, MaxRuns)

\* len(text)
RECURSIVE TextLen(_)
TextLen(text) == IF text = <<>> THEN 0 ELSE Head(text).n + TextLen(Tail(text))

\* text.lstrip()
RECURSIVE LStrip(_)
LStrip(text) ==
    IF text /= <<>> /\ Head(text).kind = "space" THEN LStrip(Tail(text)) ELSE text

\* text.rstrip()
RECURSIVE RStrip(_)
RStrip(text) ==
    IF text /= <<>> /\ text[Len(text)].kind = "space"
    THEN RStrip(SubSeq(text, 1, Len(text) - 1))
    ELSE text

\* text.strip()
Strip(text) == RStrip(LStrip(text))

\* re.sub(r'\s+', ' ', text): every run of whitespace becomes one blank.
RECURSIVE Collapse(_)
Collapse(text) ==
    IF text = <<>> THEN <<>>
    ELSE IF Head(text).kind = "space"
         THEN <<Run("space", 1)>> \o Collapse(LStrip(text))
         ELSE <<Head(text)>> \o Collapse(Tail(text))

\* clean_text(text)
clean_text(text) == Strip(Collapse(text))

\* The length a tag's text must exceed to become a section.
MinSectionLength == 20

\* if tag.text and len(tag.text.strip()) > 20: content_sections.append(
\* {'tag': tag.name, 'text': clean_text(tag.text), ...}), for one tag.
content_sections(tag_text) ==
    IF tag_text /= <<>> /\ TextLen(Strip(tag_text)) > MinSectionLength
    THEN <<[text |-> clean_text(tag_text), len |-> TextLen(clean_text(tag_text))]>>
    ELSE <<>>

ParseArgs == [fn : {"parse"}, tag_text : TagTexts]

Parse ==
    /\ args.fn = "parse"
    /\ ~ret.done
    /\ ret' = [done |-> TRUE, content_sections |-> content_sections(args.tag_text)]
    /\ UNCHANGED <<policyVars, args, io, now, cacheVars, netVars, crawl, query>>

----------------------------------------------------------------------------
(* SpecCalls: the scoring and extraction functions applied to their inputs *)

InitCalls ==
    /\ InitRest
    /\ probe = <<>>
    /\ args \in ScoreArgs \cup ExtractArgs \cup RankArgs \cup ParseArgs
                \cup SnippetArgs
    /\ cacheFile = AbsentFile
    /\ lastSaved = NeverSaved

NextCalls == Score \/ Extract \/ Rank \/ Parse \/ Snippets

SpecCalls == InitCalls /\ [][NextCalls]_vars

----------------------------------------------------------------------------
(* Claims *)

\* The domain a pattern allows: its literal labels.
DomainOf(pat) ==
    LET IsLabel(t) == t /= "." /\ t /= ".*" IN SelectSeq(pat, IsLabel)

EndsWith(netloc, d) ==
    /\ Len(netloc) > Len(d)
    /\ SubSeq(netloc, Len(netloc) - Len(d) + 1, Len(netloc)) = d

\* d occurs in netloc at a place that is not its end.
ContainsNonFinal(netloc, d) ==
    \E i \in 1..(Len(netloc) - Len(d)) : SubSeq(netloc, i, i + Len(d) - 1) = d

WebDomains == { DomainOf(pat) : pat \in CUNY_WHITELIST \cup EXTERNAL_WHITELIST }

BasicDomains == { DomainOf(pat) : pat \in WHITELIST }

\* C1: is_whitelisted_domain and whitelisted accept a URL only when its netloc
\* ends with "." and an allowed domain; a netloc that only contains an allowed
\* domain before its end (cuny.edu.evil.com) is rejected by both.
C1_InScopeSuffixOnly ==
    verdict.done =>
    /\ verdict.web => \E d \in WebDomains : EndsWith(probe, d)
    /\ verdict.basic => \E d \in BasicDomains : EndsWith(probe, d)
    /\ \A d \in WebDomains :
          (ContainsNonFinal(probe, d) /\ ~\E e \in WebDomains : EndsWith(probe, e))
              => ~verdict.web
    /\ \A d \in BasicDomains :
          (ContainsNonFinal(probe, d) /\ ~\E e \in BasicDomains : EndsWith(probe, e))
              => ~verdict.basic

C1_Witness ==
    /\ probe = <<"cuny", "edu", "evil", "com">>
    /\ verdict.done
    /\ ~verdict.web
    /\ ~verdict.basic

\* C5: a load within the TTL of the last save that completed returns exactly
\* the mapping passed to that save.
C5_LoadReturnsLastSave ==
    (lastOp = "load" /\ lastSaved.at >= 0
        /\ now - lastSaved.at <= CACHE_EXPIRY_HOURS)
    => loaded = Hit(lastSaved.content)

\* C6: load returns nothing when there is no entry, when the file is not a
\* complete entry or when the entry is older than the 24-hour TTL; in every
\* other case it returns the mapping of the save that wrote the entry.
C6_LoadMissOrStored ==
    lastOp = "load" =>
        loaded = IF /\ lastSaved.at >= 0
                    /\ lastSaved.intact
                    /\ now - lastSaved.at <= CACHE_EXPIRY_HOURS
                 THEN Hit(lastSaved.content)
                 ELSE Miss

\* A well-formed entry older than the TTL has just been loaded as a miss.
C6_Witness ==
    /\ lastOp = "load"
    /\ cacheFile.exists
    /\ JsonLoad(cacheFile.chunks).ok
    /\ now - JsonLoad(cacheFile.chunks).timestamp > CACHE_EXPIRY_HOURS
    /\ loaded = Miss

\* C8 as stated: a dequeued URL whose robots.txt cannot be fetched is
\* skipped by crawl_website: its page is not requested and no text is recorded.
C8_RobotsFailureDenies ==
    crawl.last.robots = "error" =>
        /\ ~crawl.last.requested
        /\ crawl.last.url \notin DOMAIN crawl.content

\* C8 amended: crawl_website treats a dequeued in-scope URL whose robots.txt
\* cannot be fetched as allowed (check_robots_txt falls back to
\* is_whitelisted_domain): the URL is marked visited and its page is requested.
C8_RobotsFailureAllows ==
    crawl.last.robots = "error" =>
        /\ InScope[crawl.last.url]
        /\ crawl.last.requested
        /\ crawl.last.url \in crawl.visited
        /\ crawl.requested[Len(crawl.requested)] = crawl.last.url

\* The robots.txt of a page could not be fetched and the page's text is kept.
C8_Witness ==
    /\ crawl.last.robots = "error"
    /\ crawl.last.requested
    /\ crawl.last.url \in DOMAIN crawl.content

\* C9 as stated: a run of crawl_website issues at most max_pages page GETs.
C9_RequestsWithinMaxPages == Len(crawl.requested) <= crawl.max_pages

\* C9 amended: the number of pages recorded in the result (page_count, the
\* size of content) never exceeds max_pages; a GET that returns another status,
\* an empty text or raises is not counted, so the GETs issued are not bounded
\* by max_pages.
C9_RecordedWithinMaxPages ==
    /\ crawl.page_count <= crawl.max_pages
    /\ crawl.page_count = Cardinality(DOMAIN crawl.content)
    /\ crawl.page_count <= Len(crawl.requested)

\* The ceiling is reached after more GETs than max_pages.
C9_Witness ==
    /\ crawl.max_pages > 0
    /\ crawl.page_count = crawl.max_pages
    /\ Len(crawl.requested) > crawl.max_pages

\* What holds when crawl_website has left its loop.
CrawlAtExit ==
    (crawl.pc = "done" /\ crawl.looped) =>
        /\ Len(crawl.queue) = 0 \/ crawl.page_count >= crawl.max_pages
        /\ crawl.result = crawl.content
        /\ (crawl.content /= EmptyMap /\ crawl.use_cache) =>
              /\ crawl.save /= "none"
              /\ crawl.save = "ok" => load_cache(cacheFile, now) = Hit(crawl.content)

C2_NoSnippetNoSynthesis ==
    (query.pc \in {"done", "returned"} /\ Len(query.snippets) = 0) =>
        /\ query.genaiCalls = 0
        /\ query.result = FallbackResult

\* Pages were discovered, every one was refused or failed, and the fallback
\* response came back.
C2_Witness ==
    /\ query.pc = "done"
    /\ Len(query.search_results) >= 2
    /\ Len(query.fetched) >= 1
    /\ query.idx > Len(query.search_results)
    /\ Len(query.snippets) = 0
    /\ query.result.method = "fallback"

\* C3: when the answer-synthesis call fails, the query result is the
\* "no information found" response with success=false.
C3_SynthesisFailureFallsBack ==
    (query.pc = "done" /\ query.genai = "raise") =>
        /\ ~query.result.success
        /\ query.result = FallbackResult

\* C4: when the search provider is configured and its call fails, page
\* discovery runs the built-in heuristic search_with_fallback.
C4_ProviderFailureFallsBack ==
    (query.google /\ query.cse = "fail") => query.fallbackSearched

\* C7: two fetches of the same URL within the cache TTL cause one GET: a URL
\* is requested again only after the TTL has passed.
C7_OneRequestWithinTTL ==
    \A u \in Urls :
        prevGet[u] >= 0 => lastGet[u] - prevGet[u] > CACHE_EXPIRY_HOURS

----------------------------------------------------------------------------
(* Claims on discovery, snippets and citations *)

\* C11: every snippet get_relevant_snippets returns carries one source URL
\* that is in scope and was requested after passing the policy, and its text
\* comes from the response of a whitelisted origin, never from a redirect
\* target outside the whitelist.
C11_SnippetsFromPolicedOrigin ==
    \A i \in 1..Len(query.snippets) :
        LET s == query.snippets[i]
        IN  /\ is_whitelisted_domain(s.url)
            /\ \E j \in 1..Len(query.fetched) : query.fetched[j] = s.url
            /\ is_whitelisted_domain(s.origin)

\* C12: every candidate search_with_google_cse returns has a whitelisted URL
\* taken from the provider's items; an item that fails is_whitelisted_domain
\* is not among the candidates.
C12_ProviderCandidatesInScope ==
    (query.google /\ query.cse = "ok" /\ query.pc /= "cse") =>
        /\ \A i \in 1..Len(query.search_results) :
              /\ is_whitelisted_domain(query.search_results[i].url)
              /\ \E j \in 1..Len(query.items) :
                    query.items[j] = query.search_results[i].url
        /\ \A j \in 1..Len(query.items) :
              ~is_whitelisted_domain(query.items[j]) =>
                  \A i \in 1..Len(query.search_results) :
                      query.search_results[i].url /= query.items[j]

\* The provider returned an item outside the whitelist along with one inside.
C12_Witness ==
    /\ query.google
    /\ query.cse = "ok"
    /\ \E j \in 1..Len(query.items) : query.items[j] = UrlEvil
    /\ Len(query.search_results) = 1
    /\ Len(query.items) = 2

\* C13: the sources returned with an answer are the distinct URLs of the
\* snippets used, one entry each, numbered 1..n in first-seen order, and no
\* URL occurs twice in them.
C13_OneCitationPerUrl ==
    (query.pc = "done" /\ query.result.success) =>
        /\ \A i \in 1..Len(query.unique_sources) :
              query.unique_sources[i].citation_num = i
        /\ \A i, j \in 1..Len(query.result.sources) :
              i /= j => query.result.sources[i] /= query.result.sources[j]
        /\ Len(query.result.sources) = Len(query.unique_sources)
        /\ \A i \in 1..Len(query.result.sources) :
              query.result.sources[i] = query.unique_sources[i].url

\* The seeds that answered 200 with a score above the threshold.
Qualifying(probed) ==
    {i \in 1..Len(probed) : probed[i].kind = "200" /\ probed[i].score > MinRelevance}

Smaller(a, b) == IF a < b THEN a ELSE b

\* C18: search_with_fallback returns only seeds that scored above 0.1, at most
\* num_results of them, by score descending, none of the seeds left out
\* scoring higher than one returned; when every seed request fails the result
\* is the empty list.
C18_FallbackTopByScore ==
    (query.pc = "fetch" /\ query.fallbackSearched) =>
        LET r == query.search_results
            q == Qualifying(query.probed)
        IN  /\ Len(r) = Smaller(Cardinality(q), query.num_results)
            /\ \A i \in 1..Len(r) :
                  /\ r[i].score > MinRelevance
                  /\ \E k \in q : /\ query.probed[k].url = r[i].url
                                  /\ query.probed[k].score = r[i].score
            /\ \A i, j \in 1..Len(r) : i < j => r[i].score >= r[j].score
            /\ \A k \in q :
                  (\A i \in 1..Len(r) : r[i].url /= query.probed[k].url) =>
                      \A i \in 1..Len(r) : r[i].score >= query.probed[k].score
            /\ (\A k \in 1..Len(query.probed) : query.probed[k].kind /= "200")
                  => r = <<>>

\* Three seeds qualified in ascending order of score and the limit cut one.
C18_Witness ==
    /\ query.pc = "fetch"
    /\ query.num_results = 2
    /\ Cardinality(Qualifying(query.probed)) = 3
    /\ query.probed[1].score < query.probed[3].score
    /\ Len(query.search_results) = 2
    /\ query.search_results[1].url = query.probed[3].url

\* C19: a page that fails does not end get_relevant_snippets: every candidate
\* among the first five is processed in order, the snippets of every page
\* that parsed are collected, and the query ends with a live_search or a
\* fallback response, the latter with success=false.
C19_FailedPageSkipped ==
    (query.pc \in {"genai", "done", "returned"} /\ query.use_live_search) =>
        LET inspected == Take(query.search_results, TopPages)
        IN  /\ Len(query.outcomes) = Len(inspected)
            /\ \A i \in 1..Len(inspected) :
                  /\ query.outcomes[i].url = inspected[i].url
                  /\ query.outcomes[i].ok =>
                        \A k \in 1..Len(query.outcomes[i].snippets) :
                            \E m \in 1..Len(query.all_snippets) :
                                query.all_snippets[m] = query.outcomes[i].snippets[k]
            /\ query.snippets = Take(SortByScore(query.all_snippets), MaxSnippets)
            /\ query.pc \in {"done", "returned"} =>
                  \/ query.result = FallbackResult
                  \/ query.result.success /\ query.result.method = "live_search"

\* The first candidate's request failed and the second one's snippets came back.
C19_Witness ==
    /\ query.pc = "done"
    /\ Len(query.outcomes) >= 2
    /\ query.outcomes[1].requested
    /\ ~query.outcomes[1].ok
    /\ query.outcomes[2].ok
    /\ Len(query.snippets) > 0
    /\ query.snippets[1].url = query.outcomes[2].url

\* C20: a fetch of a URL the policy refuses (scope or robots) ends in a
\* PermissionError, an outcome no network failure produces, and the page
\* itself is not requested.
C20_RefusalIsPermissionError ==
    (lastOp \in {"fetch", "scrape"} /\ page.refused) =>
        /\ ~page.requested
        /\ page.error = "PermissionError"

----------------------------------------------------------------------------
(* Claims on extraction and scoring *)

\* The pass an item came from.
Provenance(item) ==
    IF item.data_type \in {"comprehensive", "fallback"} THEN item.data_type
    ELSE "typed"

Extracted == args.fn = "extract" /\ ret.done

\* C14: a list returned by extract_specific_data holds items of one pass
\* only; comprehensive items appear only if the typed pass found nothing,
\* fallback items only if the typed and the comprehensive pass found nothing.
C14_PassesExclusive ==
    Extracted =>
        LET typed == TypedItems(1, args.query, args.sections)
            comprehensive == ComprehensiveItems(args.query, args.sections)
        IN  /\ \A i, j \in 1..Len(ret.items) :
                  Provenance(ret.items[i]) = Provenance(ret.items[j])
            /\ \A i \in 1..Len(ret.items) :
                  /\ Provenance(ret.items[i]) = "comprehensive" => typed = <<>>
                  /\ Provenance(ret.items[i]) = "fallback" =>
                        typed = <<>> /\ comprehensive = <<>>

\* The comprehensive pass answered and kept out a section the fallback pass
\* would have taken.
C14_Witness ==
    /\ Extracted
    /\ Len(ret.items) > 0
    /\ \A i \in 1..Len(ret.items) : Provenance(ret.items[i]) = "comprehensive"
    /\ Len(FallbackItems(args.query, args.sections)) > Len(ret.items)

\* The text holds a number followed by the word "credits", as in
\* "45 credits transferred".
NamesCredits(words) ==
    \E i \in 1..(Len(words) - 1) : words[i] = "45" /\ words[i + 1] = "credits"

\* The section at i is returned as a transfer_credits item and nothing comes
\* from the later passes.
TaggedTransfer(i) ==
    /\ \E k \in 1..Len(ret.items) :
          /\ ret.items[k].section = i
          /\ ret.items[k].data_type = "transfer_credits"
    /\ \A k \in 1..Len(ret.items) : Provenance(ret.items[k]) = "typed"

\* C15: for a page with a section whose text matches a transfer_credits
\* pattern, extract_specific_data returns a transfer_credits item for that
\* section and nothing from the comprehensive or fallback pass.
C15_TransferPatternTagged ==
    Extracted =>
        \A i \in 1..Len(args.sections) :
            NamesCredits(args.sections[i].text) => TaggedTransfer(i)

\* C15 as amended: the same, for a query that holds a transfer_credits keyword.
C15_TransferPatternTaggedWhenAsked ==
    (Extracted /\ WordSet(args.query) \cap {"transfer", "credits"} /= {}) =>
        \A i \in 1..Len(args.sections) :
            NamesCredits(args.sections[i].text) => TaggedTransfer(i)

\* A long section matching the pattern was tagged for a transfer query, on a
\* page with a section the later passes would have taken.
C15_Witness ==
    /\ Extracted
    /\ args.query = <<"transfer", "campus">>
    /\ args.sections = <<SecMust, SecCreditsLong>>
    /\ Len(ret.items) = 1
    /\ ret.items[1].section = 2
    /\ ret.items[1].data_type = "transfer_credits"

Ranked == args.fn = "rank" /\ ret.done

\* C16: of two sections with the same text, a heading and a paragraph,
\* rank_content_relevance scores the heading strictly higher, for every query.
C16_HeadingAboveParagraph ==
    Ranked => Above(ret.scored[1].relevance_score, ret.scored[2].relevance_score)

\* C16 as amended: strictly higher when the query shares a word with the
\* text; when it shares none both scores are 0.
C16_HeadingAboveParagraphOnOverlap ==
    Ranked =>
        IF WordSet(args.query) \cap WordSet(args.text.text) /= {}
        THEN Above(ret.scored[1].relevance_score, ret.scored[2].relevance_score)
        ELSE ret.scored[1].relevance_score.num = 0
                /\ ret.scored[2].relevance_score.num = 0

\* An h4 heading outranked the paragraph of the same text, both returned.
C16_Witness ==
    /\ Ranked
    /\ args.heading = "h4"
    /\ Len(ret.ranked) = 2
    /\ ret.ranked[1].tag = "h4"
    /\ ret.ranked[2].tag = "p"

Scored == args.fn = "score" /\ ret.done

\* The score of the scoring section, for a given list of error markers: the
\* sum of the contributions, times 0.1 on a marker, at most 2.0.
Reference(markers) ==
    LET qw == args.query_words
        unit == IF qw = {} THEN 1 ELSE Cardinality(qw)
        present == qw \cap args.page_text
        overlap == 400 * Cardinality(present)
        phrases == 300 * unit * Cardinality(present \ {"fee", "law"})
        topics == 500 * unit * Cardinality(present \cap {"business", "law"})
        urlHit == IF qw \cap args.url /= {} THEN 300 * unit ELSE 0
        titleHit == IF qw \cap args.title /= {} THEN 200 * unit ELSE 0
        intentHits == 400 * unit * Cardinality(present \cap {"admission", "fee"})
        total == overlap + phrases + topics + urlHit + titleHit + intentHits
        penalized == IF args.page_text \cap markers /= {} THEN total \div 10
                     ELSE total
    IN  IF penalized > 2000 * unit THEN 2000 * unit ELSE penalized

\* C17: calculate_intelligent_relevance equals the reference with the error
\* markers "404", "not found", "page not available", and is never negative.
C17_ScoreIsReference ==
    Scored =>
        /\ ret.score = Reference({"404", "not found", "page not available"})
        /\ ret.score >= 0

\* C17 as amended: the same with "error" among the markers.
C17_ScoreIsReferenceWithError ==
    Scored =>
        /\ ret.score = Reference({"404", "not found", "error", "page not available"})
        /\ ret.score >= 0

\* A page that scored above the cap before the penalty, holding "error" and
\* no other marker.
C17_Witness ==
    /\ Scored
    /\ args.query_words = {"admission", "business", "cuny"}
    /\ args.page_text = {"admission", "business", "cuny", "error"}
    /\ args.url = {"admission"}
    /\ ret.score > 0
    /\ ret.score < 2000 * 3

\* What crawl_website's queue holds at every step.
QueueWithinScopeAndDepth ==
    \A i \in 1..Len(crawl.queue) :
        /\ InScope[crawl.queue[i].url]
        /\ crawl.queue[i].depth <= crawl.max_depth

\* What one pass of crawl_website's loop does to the queue and the result.
PassWithinDepth ==
    (crawl.pc = "loop" /\ crawl'.pc = "loop" /\ crawl' /= crawl) =>
        LET depth == Head(crawl.queue).depth
            rest == Len(crawl.queue) - 1
        IN  /\ Len(crawl'.queue) >= rest
            /\ Len(crawl'.queue) > rest =>
                  /\ depth < crawl.max_depth
                  /\ crawl'.last.requested
                  /\ \A i \in (rest + 1)..Len(crawl'.queue) :
                        crawl'.queue[i].depth = depth + 1
            /\ crawl'.content /= crawl.content =>
                  /\ depth <= crawl.max_depth
                  /\ DOMAIN crawl'.content = DOMAIN crawl.content
                                               \cup {Head(crawl.queue).url}

\* C24: at every step of crawl_website every (url, depth) pair in the queue
\* has an in-scope URL and a depth of at most max_depth; links are enqueued at
\* depth + 1, and only from a page fetched at a depth below max_depth; so every
\* URL recorded in the result was fetched at a depth of at most max_depth.
C24_QueueWithinScopeAndDepth ==
    /\ []QueueWithinScopeAndDepth
    /\ [][PassWithinDepth]_vars

\* Links of the deepest level are queued and a page has been recorded.
C24_Witness ==
    /\ crawl.pc = "loop"
    /\ crawl.max_depth = 2
    /\ \E i \in 1..Len(crawl.queue) : crawl.queue[i].depth = crawl.max_depth
    /\ UrlAdm \in DOMAIN crawl.content

\* C26: within one run of crawl_website each URL is requested at most once,
\* however many times it was enqueued: the URLs requested are those visited,
\* and none occurs twice among the requests.
C26_EachUrlRequestedOnce ==
    /\ \A i, j \in 1..Len(crawl.requested) :
          crawl.requested[i] = crawl.requested[j] => i = j
    /\ crawl.visited = {crawl.requested[i] : i \in 1..Len(crawl.requested)}

\* UrlAdm is linked twice from UrlRoot: its first entry was requested (before
\* UrlHunter, queued after it) and its second entry has left the queue.
C26_Witness ==
    /\ crawl.requested = <<UrlRoot, UrlAdm, UrlHunter>>
    /\ crawl.max_depth = 1
    /\ crawl.queue = <<>>

\* The cache holds a complete, non-empty mapping no older than the TTL.
CacheHolds ==
    /\ lastSaved.at >= 0
    /\ lastSaved.intact
    /\ lastSaved.content /= EmptyMap
    /\ now - lastSaved.at <= CACHE_EXPIRY_HOURS

\* A call of crawl_website with use_cache=True while the cache holds a mapping.
ServedFromCache ==
    (crawl.pc = "idle" /\ crawl'.pc /= "idle" /\ crawl'.use_cache /\ CacheHolds) =>
        /\ crawl'.pc = "done"
        /\ crawl'.result = lastSaved.content
        /\ ~crawl'.looped
        /\ crawl'.requested = <<>>
        /\ crawl'.last = NoIteration
        /\ lastGet' = lastGet

\* C28: crawl_website called with use_cache=True while the cache holds a
\* non-expired, non-empty mapping returns that mapping unchanged and makes no
\* network request, neither for robots.txt nor for a page, whatever base_url
\* is; a run that did not enter the loop has made no request.
C28_CacheHitNoNetwork ==
    /\ [][ServedFromCache]_vars
    /\ []((crawl.pc \in {"done", "returned"} /\ ~crawl.looped) =>
             (crawl.requested = <<>> /\ crawl.last = NoIteration))

\* A crawl from a base URL outside CUNY has returned the cached mapping.
C28_Witness ==
    /\ crawl.pc = "done"
    /\ crawl.use_cache
    /\ crawl.base_url = UrlNews
    /\ ~crawl.looped
    /\ crawl.result = CachedAdm
    /\ now > 0

\* C29: a run of crawl_website that records no page, and any run with
\* use_cache=False, leaves the cache file as it was: the file is written only
\* by a run with use_cache=True that has recorded a page.
C29_NoPageNoWrite ==
    [][cacheFile' /= cacheFile =>
          (crawl.use_cache /\ crawl.content /= EmptyMap)]_vars

\* A run with caching on requested pages, recorded none and has returned with
\* the cache file of an earlier run still in place.
C29_Witness ==
    /\ crawl.pc = "done"
    /\ crawl.looped
    /\ crawl.use_cache
    /\ Len(crawl.requested) > 0
    /\ crawl.content = EmptyMap
    /\ cacheFile.exists

\* C22: with one save_cache at a time running beside load_cache calls, a load
\* returns either nothing or a complete mapping that was passed to some save,
\* at every interleaving of the writer's steps with the reader's.
C22_LoadFullOrNothing ==
    lastOp = "load" => (loaded = Miss \/ (loaded.hit /\ loaded.content \in io.saved))

\* A load has returned a mapping that takes one URL's text from one save and
\* the other URL's text from the next.
C22_MixedLoad ==
    /\ lastOp = "load"
    /\ loaded.hit
    /\ loaded.content \in [CacheUrls -> Texts] \ SharedContents

\* C25: no page GET is issued on the query path to a URL for which
\* is_whitelisted_domain is false: not to a seed of search_with_fallback, not
\* to a candidate handed to fetch_and_parse_page (every seed probed is
\* whitelisted).
C25_EveryGetInScope ==
    /\ \A i \in 1..Len(query.probed) : is_whitelisted_domain(query.probed[i].url)
    /\ \A i \in 1..Len(query.fetched) : is_whitelisted_domain(query.fetched[i])

\* C27: every result of get_cuny_answer_for_chatbot has a method among
\* live_search, fallback and error; success is true exactly when the method is
\* live_search; a successful result has between one and three sources and an
\* unsuccessful one has none.
C27_ResultShape ==
    query.pc \in {"done", "returned"} =>
        LET result == query.result
        IN  /\ result.method \in {"live_search", "fallback", "error"}
            /\ result.success <=> result.method = "live_search"
            /\ result.success =>
                  /\ Len(result.sources) >= 1
                  /\ Len(result.sources) <= MaxSources
            /\ ~result.success => result.sources = <<>>

\* An answer built from more than three snippets cites three sources.
C27_Witness ==
    /\ query.pc = "done"
    /\ query.result.success
    /\ Len(query.snippets) > MaxSources
    /\ Len(query.result.sources) = MaxSources

\* C23: every section fetch_and_parse_page produces has a cleaned text
\* (whitespace runs collapsed, trimmed) of at least 20 characters, and a tag
\* whose cleaned text is shorter yields no section.
C23_SectionsAtLeastMinimum ==
    (args.fn = "parse" /\ ret.done) =>
        /\ \A i \in 1..Len(ret.content_sections) :
              ret.content_sections[i].len >= MinSectionLength
        /\ TextLen(clean_text(args.tag_text)) < MinSectionLength
              => ret.content_sections = <<>>

\* A tag whose words are far apart became a section of three characters.
C23_ShortSectionKept ==
    /\ args.fn = "parse"
    /\ ret.done
    /\ args.tag_text = <<Run("word", 1), Run("space", 30), Run("word", 1)>>
    /\ Len(ret.content_sections) = 1
    /\ ret.content_sections[1].len = 3

\* C21: every snippet get_relevant_snippets returns, extracted items
\* included, has a text of at most MAX_SNIPPET_LENGTH (500) characters.
C21_SnippetsWithinMaxLength ==
    (args.fn = "snippets" /\ ret.done) =>
        \A i \in 1..Len(ret.snippets) : ret.snippets[i].len <= MAX_SNIPPET_LENGTH

\* The data types whose keywords the query mentions.
Mentioned(q) ==
    { data_patterns[k].data_type : k \in
        { n \in 1..Len(data_patterns) : HasStem(q, data_patterns[n].keywords) } }

\* C30 as stated: no two items extract_specific_data returns come from the
\* same section of the page.
C30_EachSectionOnce ==
    Extracted =>
        \A i, j \in 1..Len(ret.items) :
            ret.items[i].section = ret.items[j].section => i = j

\* C30 amended: extract_specific_data emits a section at most once per data
\* type: two items of the same section carry different data types, each a
\* category of the typed pass whose keyword the query mentions; the
\* comprehensive and the fallback pass emit a section once.
C30_EachSectionOncePerCategory ==
    Extracted =>
        \A i, j \in 1..Len(ret.items) :
            (i /= j /\ ret.items[i].section = ret.items[j].section) =>
                /\ ret.items[i].data_type /= ret.items[j].data_type
                /\ {ret.items[i].data_type, ret.items[j].data_type}
                      \subseteq Mentioned(args.query)

\* A query naming two categories got one section back under both.
C30_Witness ==
    /\ Extracted
    /\ \E i, j \in 1..Len(ret.items) :
          /\ i < j
          /\ ret.items[i].section = ret.items[j].section
          /\ ret.items[i].data_type = "transfer_credits"
          /\ ret.items[j].data_type = "programs_majors"

====
